---- MODULE Spec2Model ----
(***************************************************************************)
(* Model of osm.Importer (src/osm/osm.go): the hierarchy builder           *)
(* (areasToPolygons, relationToPolygon, wayToPolygon) and the indexing     *)
(* pipeline (Start, WaitStop) around an errgroup.Group.                    *)
(*                                                                         *)
(* A point is <<lat, lon>>; a polygon is the sequence of its points (Go's   *)
(* Points()[k] is polygon[k+1] here).                                      *)
(***************************************************************************)
EXTENDS Integers, Sequences, FiniteSets, TLC

VARIABLES
    file,         \* what parser.Parse delivers into the handler
    handler,      \* i.handler: Nodes, FullWays, Countries, Areas, Districts
    countries,    \* i.countries
    exports,      \* the debug export files on disk, each a name and its lines
    pc,           \* position of the calling thread
    run,          \* number of Start calls made so far
    ret,          \* the last call that returned to the caller, and its value
    goroutines,   \* the goroutines eg.Go launched, in launch order
    wg,           \* i.eg's WaitGroup counter
    egErr,        \* i.eg's err (set once)
    cidx,         \* areasToPolygons: index of the next element of handler.Countries
    built,        \* the last Start call whose areasToPolygons returned
    atCall,       \* countries, exports and calls when the current Start was called
    calls,        \* number of parser.Parse and e.UpdateIndex calls made, and what the last one returned
    area,         \* relationToPolygon on its own: the argument
    polygon       \* relationToPolygon on its own: the result

vars == <<file, handler, countries, exports, pc, run, ret, goroutines, wg, egErr,
          cidx, built, atCall, calls, area, polygon>>

----------------------------------------------------------------------------
(* Bounds *)

MaxStarts == 2
MaxMembers == 3
MaxCountries == 2
MaxAreas == 2
MaxDistricts == 1

----------------------------------------------------------------------------
(* Values *)

Nil == "nil"
Void == "void"
Panic == "panic"
NotComputed == "not computed"
ImportCountry == "KG"

RECURSIVE SeqsUpTo(_, _)
SeqsUpTo(S, n) ==
    IF n = 0 THEN {<<>>}
    ELSE LET shorter == SeqsUpTo(S, n - 1)
         IN  shorter \cup {Append(s, x) : s \in {t \in shorter : Len(t) = n - 1}, x \in S}

----------------------------------------------------------------------------
(* The extract: points, paths and classified relations *)

NodeTable ==
    <<  <<0, 0>>, <<8, 0>>, <<8, 8>>, <<0, 8>>,      \* 1..4   outer square
        <<1, 1>>, <<5, 1>>, <<5, 5>>, <<1, 5>>,      \* 5..8   square A
        <<3, 3>>, <<7, 3>>, <<7, 7>>, <<3, 7>>,      \* 9..12  square B, overlaps A
        <<4, 4>>, <<2, 2>>, <<9, 9>>, <<6, 6>>  >>   \* 13 in A and B, 14 in A, 15 outside, 16 in B

FileNodes == [id \in DOMAIN NodeTable |-> [Lat |-> NodeTable[id][1], Lon |-> NodeTable[id][2]]]

WayIds == {5, 101, 102, 103, 104}

WayNodeIDs(id) ==
    CASE id = 5   -> <<9, 10, 11>>      \* same identifier as point 5
      [] id = 101 -> <<1, 2, 3, 4>>
      [] id = 102 -> <<5, 6, 7, 8>>
      [] id = 103 -> <<9, 10, 11, 12>>
      [] id = 104 -> <<2, 3>>

FileFullWays == [id \in WayIds |-> [ID |-> id, NodeIDs |-> WayNodeIDs(id)]]

NoTags == <<>>
NameTag(n) == [k \in {"name"} |-> n]
PlaceTags(n, p) == [k \in {"name", "place"} |-> IF k = "name" THEN n ELSE p]

Ref(id, type) == [ID |-> id, Type |-> type]
WayRefs(ids) == [k \in DOMAIN ids |-> Ref(ids[k], "way")]
NodeRefs(ids) == [k \in DOMAIN ids |-> Ref(ids[k], "node")]

Relation(id, tags, members) == [ID |-> id, Tags |-> tags, Members |-> members]
Way(id, tags, nodeIDs) == [ID |-> id, Tags |-> tags, NodeIDs |-> nodeIDs]

\* Country candidates: the outer square under the configured name, the same
\* square under another name, and square A under the configured name again.
CountryKG == Relation(201, NameTag(ImportCountry), WayRefs(<<101>>))
CountryKZ == Relation(202, NameTag("KZ"), WayRefs(<<101>>))
CountryKGAgain == Relation(203, NameTag(ImportCountry), WayRefs(<<102>>))
CountryRelations == {CountryKG, CountryKZ, CountryKGAgain}

\* Settlement candidates: squares A and B; a ring whose second point alone is
\* inside the outer square; a ring whose second point alone is outside it; a
\* relation without tags whose only member is unresolved (an empty ring).
AreaA == Relation(301, PlaceTags("Bishkek", "city"), WayRefs(<<102>>))
AreaB == Relation(302, PlaceTags("Osh", "town"), WayRefs(<<103>>))
AreaSecondIn == Relation(303, PlaceTags("Tokmok", "town"), NodeRefs(<<15, 13, 15>>))
AreaSecondOut == Relation(304, NameTag("Naryn"), NodeRefs(<<14, 15, 13>>))
AreaEmpty == Relation(305, NoTags, WayRefs(<<99>>))
AreaRelations == {AreaA, AreaB, AreaSecondIn, AreaSecondOut, AreaEmpty}

\* District candidates: second point in A and B; second point in A only; a
\* path of a single point.
DistrictBoth == Way(401, NameTag("Center"), <<14, 13, 16>>)
DistrictAOnly == Way(402, NoTags, <<13, 14>>)
DistrictOnePoint == Way(403, NameTag("Point"), <<5>>)
DistrictWays == {DistrictBoth, DistrictAOnly, DistrictOnePoint}

Extract(cs, as, ds) ==
    [Nodes |-> FileNodes, FullWays |-> FileFullWays,
     Countries |-> cs, Areas |-> as, Districts |-> ds]

Extracts ==
    { Extract(cs, as, ds) : cs \in SeqsUpTo(CountryRelations, MaxCountries),
                            as \in SeqsUpTo(AreaRelations, MaxAreas),
                            ds \in SeqsUpTo(DistrictWays, MaxDistricts) }

\* The extracts the pipeline is run on: a well-formed one and one whose only
\* settlement has an empty ring.
PipelineExtracts ==
    { Extract(<<CountryKZ, CountryKG>>, <<AreaA, AreaSecondIn>>, <<DistrictBoth>>),
      Extract(<<CountryKG>>, <<AreaEmpty>>, <<>>) }

MemberRefs ==
    { Ref(1, "node"), Ref(13, "node"), Ref(5, "way"), Ref(104, "way"),
      Ref(102, "way"), Ref(99, "way") }

EmptyHandler ==
    [Nodes |-> <<>>, FullWays |-> <<>>, Countries |-> <<>>, Areas |-> <<>>, Districts |-> <<>>]

----------------------------------------------------------------------------
(* Geometry *)

NewPoint(lat, lon) == <<lat, lon>>

\* Point in polygon by ray casting over the ring's edges, the last point joined
\* to the first; a ring of fewer than three points contains nothing.
Contains(poly, p) ==
    IF Len(poly) < 3 THEN FALSE
    ELSE LET n == Len(poly)
             Crosses(i) ==
                 LET a == poly[i]
                     b == poly[(i % n) + 1]
                     dy == b[2] - a[2]
                     lhs == (p[1] - a[1]) * dy
                     rhs == (p[2] - a[2]) * (b[1] - a[1])
                 IN  /\ (a[2] > p[2]) # (b[2] > p[2])
                     /\ IF dy > 0 THEN lhs < rhs ELSE lhs > rhs
         IN  Cardinality({i \in 1..n : Crosses(i)}) % 2 = 1

Tag(tags, k) == IF k \in DOMAIN tags THEN tags[k] ELSE ""

----------------------------------------------------------------------------
(* Polygon assembly *)

\* for _, nodeID := range way.NodeIDs { points = append(points, ...) }
\* The paths of an extract are fully resolved: every nodeID is a key of h.Nodes.
RECURSIVE wayPoints(_, _, _, _)
wayPoints(h, nodeIDs, k, points) ==
    IF k > Len(nodeIDs) THEN points
    ELSE LET node == h.Nodes[nodeIDs[k]]
         IN  wayPoints(h, nodeIDs, k + 1, Append(points, NewPoint(node.Lat, node.Lon)))

\* One member of the relation: a known point, else the path of that identifier
\* (a missing map entry is the zero Way, which has no NodeIDs).
memberPointsDedup(h, member, points) ==
    IF member.ID \in DOMAIN h.Nodes
    THEN LET pt == NewPoint(h.Nodes[member.ID].Lat, h.Nodes[member.ID].Lon)
         IN  IF \E j \in DOMAIN points : points[j] = pt THEN points ELSE Append(points, pt)
    ELSE LET nodeIDs == IF member.ID \in DOMAIN h.FullWays
                        THEN h.FullWays[member.ID].NodeIDs ELSE <<>>
         IN  wayPoints(h, nodeIDs, 1, points)

memberPoints(h, member, points) ==
    IF member.ID \in DOMAIN h.Nodes
    THEN Append(points, NewPoint(h.Nodes[member.ID].Lat, h.Nodes[member.ID].Lon))
    ELSE LET nodeIDs == IF member.ID \in DOMAIN h.FullWays
                        THEN h.FullWays[member.ID].NodeIDs ELSE <<>>
         IN  wayPoints(h, nodeIDs, 1, points)

RECURSIVE relationPoints(_, _, _, _)
relationPoints(h, members, k, points) ==
    IF k > Len(members) THEN points
    ELSE relationPoints(h, members, k + 1, memberPoints(h, members[k], points))

relationToPolygon(h, rel) == relationPoints(h, rel.Members, 1, <<>>)

wayToPolygon(h, way) == wayPoints(h, way.NodeIDs, 1, <<>>)

----------------------------------------------------------------------------
(* Tree construction *)

\* Points()[1]: the second point of the ring; indexing faults on a shorter ring.
RepresentativePointFirst(poly) == IF Len(poly) < 1 THEN Panic ELSE poly[1]

RepresentativePoint(poly) == IF Len(poly) < 2 THEN Panic ELSE poly[2]

\* cn.Tags["name"] != i.config.ImportCountry  =>  continue
MatchesAny(cn) == TRUE

Matches(cn) == Tag(cn.Tags, "name") = ImportCountry

\* for _, dist := range i.handler.Districts { ... }
RECURSIVE districtLoop(_, _, _, _)
districtLoop(h, areaPolygon, k, districts) ==
    IF k > Len(h.Districts) THEN districts
    ELSE LET dist == h.Districts[k]
             districtPolygon == wayToPolygon(h, dist)
             point == RepresentativePoint(districtPolygon)
         IN  IF point = Panic THEN Panic
             ELSE IF Contains(areaPolygon, point)
             THEN districtLoop(h, areaPolygon, k + 1,
                      Append(districts, [name |-> Tag(dist.Tags, "name"),
                                         geom |-> districtPolygon]))
             ELSE districtLoop(h, areaPolygon, k + 1, districts)

\* for _, area := range i.handler.Areas { ... }
RECURSIVE areaLoop(_, _, _, _)
areaLoop(h, countryPolygon, k, towns) ==
    IF k > Len(h.Areas) THEN towns
    ELSE LET a == h.Areas[k]
             areaPolygon == relationToPolygon(h, a)
             districts == districtLoop(h, areaPolygon, 1, <<>>)
             point == RepresentativePoint(areaPolygon)
             city == [name |-> Tag(a.Tags, "name"), geom |-> areaPolygon,
                      placeType |-> Tag(a.Tags, "place"), districts |-> districts]
         IN  IF districts = Panic \/ point = Panic THEN Panic
             ELSE IF Contains(countryPolygon, point)
             THEN areaLoop(h, countryPolygon, k + 1, Append(towns, city))
             ELSE areaLoop(h, countryPolygon, k + 1, towns)

\* fmt.Sprintf("%v,%v\n", point.Lng(), point.Lat()) for each point
ExportLines(poly) == [k \in DOMAIN poly |-> <<poly[k][2], poly[k][1]>>]

\* os.Create truncates a file of that name
WriteExport(files, name, lines) ==
    {f \in files : f.name # name} \cup {[name |-> name, lines |-> lines]}

\* The process ends (log.Fatal, or a panic nobody recovers): its goroutines end with it.
Killed(gs) ==
    [k \in DOMAIN gs |-> IF gs[k].status = "running"
                         THEN [gs[k] EXCEPT !.status = "killed"] ELSE gs[k]]

----------------------------------------------------------------------------
(* Start *)

\* The control flow of Start: the step that follows `step` ending with `err`;
\* "idle" is the return to the caller.
StartFlowIgnoresIndexError(step, err) ==
    CASE step = "parse"           -> IF err # Nil THEN "idle" ELSE "updateIndices"
      [] step = "updateIndices"   -> "areasToPolygons"
      [] step = "areasToPolygons" -> "go1"
      [] step = "go1"             -> "go2"
      [] step = "go2"             -> "go3"
      [] step = "go3"             -> "idle"

StartFlowFansOutFirst(step, err) ==
    CASE step = "parse"           -> IF err # Nil THEN "idle" ELSE "updateIndices"
      [] step = "updateIndices"   -> IF err # Nil THEN "idle" ELSE "go1"
      [] step = "go1"             -> "go2"
      [] step = "go2"             -> "go3"
      [] step = "go3"             -> "areasToPolygons"
      [] step = "areasToPolygons" -> "idle"

StartFlow(step, err) ==
    CASE step = "parse"           -> IF err # Nil THEN "idle" ELSE "updateIndices"
      [] step = "updateIndices"   -> IF err # Nil THEN "idle" ELSE "areasToPolygons"
      [] step = "areasToPolygons" -> "go1"
      [] step = "go1"             -> "go2"
      [] step = "go2"             -> "go3"
      [] step = "go3"             -> "idle"

\* What a step of Start leaves in pc and ret.
Advance(step, err) ==
    LET next == StartFlow(step, err)
    IN  /\ pc' = next
        /\ ret' = IF next = "idle" THEN [call |-> "Start", value |-> err] ELSE ret

\* i.eg.Go(i.crossRoadsToElastic); i.eg.Go(i.nodesToElastic); i.eg.Go(i.waysToElastic)
GoFuncsNodesTwice ==
    [go1 |-> "crossRoadsToElastic", go2 |-> "nodesToElastic", go3 |-> "nodesToElastic"]

GoFuncs ==
    [go1 |-> "crossRoadsToElastic", go2 |-> "nodesToElastic", go3 |-> "waysToElastic"]

Alive == pc \notin {"exited", "panicked"}

StartCall ==
    /\ pc = "idle"
    /\ run < MaxStarts
    /\ run' = run + 1
    /\ pc' = "parse"
    /\ atCall' = [countries |-> countries, exports |-> exports, calls |-> calls]
    /\ UNCHANGED <<file, handler, countries, exports, ret, goroutines, wg, egErr,
                   cidx, built, calls, area, polygon>>

\* i.parse(): i.parser.Parse(i.handler). A Parse that returns nil has filled the
\* handler with the extract's collections.
StartParse ==
    /\ pc = "parse"
    /\ \E err \in {Nil, "parse error"} :
          /\ calls' = [calls EXCEPT !.Parse = @ + 1, !.err = err]
          /\ handler' = IF err = Nil THEN file ELSE handler
          /\ Advance("parse", err)
    /\ UNCHANGED <<file, countries, exports, run, goroutines, wg, egErr, cidx, built,
                   atCall, area, polygon>>

\* i.updateIndices(): i.e.UpdateIndex()
StartUpdateIndices ==
    /\ pc = "updateIndices"
    /\ cidx' = 1
    /\ \E err \in {Nil, "index error"} :
          /\ calls' = [calls EXCEPT !.UpdateIndex = @ + 1, !.err = err]
          /\ Advance("updateIndices", err)
    /\ UNCHANGED <<file, handler, countries, exports, run, goroutines, wg, egErr, built,
                   atCall, area, polygon>>

\* One iteration of areasToPolygons' loop over i.handler.Countries
AreasToPolygonsCountry ==
    /\ pc = "areasToPolygons"
    /\ cidx <= Len(handler.Countries)
    /\ LET cn == handler.Countries[cidx]
           countryPolygon == relationToPolygon(handler, cn)
           name == Tag(cn.Tags, "name")
           towns == areaLoop(handler, countryPolygon, 1, <<>>)
           written == WriteExport(exports, name, ExportLines(countryPolygon))
       IN  \/ /\ ~Matches(cn)
              /\ cidx' = cidx + 1
              /\ UNCHANGED <<countries, exports, pc, goroutines>>
           \/ /\ Matches(cn)            \* os.Create fails: log.Fatal
              /\ pc' = "exited"
              /\ goroutines' = Killed(goroutines)
              /\ UNCHANGED <<countries, exports, cidx>>
           \/ /\ Matches(cn)            \* an index out of range
              /\ towns = Panic
              /\ exports' = written
              /\ pc' = "panicked"
              /\ goroutines' = Killed(goroutines)
              /\ UNCHANGED <<countries, cidx>>
           \/ /\ Matches(cn)
              /\ towns # Panic
              /\ exports' = written
              /\ countries' = Append(countries,
                                    [name |-> name, geom |-> countryPolygon, towns |-> towns])
              /\ cidx' = cidx + 1
              /\ UNCHANGED <<pc, goroutines>>
    /\ UNCHANGED <<file, handler, run, ret, wg, egErr, built, atCall, calls, area, polygon>>

AreasToPolygonsReturn ==
    /\ pc = "areasToPolygons"
    /\ cidx > Len(handler.Countries)
    /\ built' = run
    /\ Advance("areasToPolygons", Nil)
    /\ UNCHANGED <<file, handler, countries, exports, run, goroutines, wg, egErr, cidx,
                   atCall, calls, area, polygon>>

\* i.eg.Go(f): wg.Add(1) and go func
StartGo ==
    /\ pc \in DOMAIN GoFuncs
    /\ goroutines' = Append(goroutines, [run |-> run, fn |-> GoFuncs[pc], status |-> "running"])
    /\ wg' = wg + 1
    /\ Advance(pc, Nil)
    /\ UNCHANGED <<file, handler, countries, exports, run, egErr, cidx, built, atCall,
                   calls, area, polygon>>

\* A launched push returns: errOnce keeps the first error, then wg.Done()
GoroutineReturns ==
    /\ Alive
    /\ \E g \in DOMAIN goroutines, err \in {Nil, "push error"} :
          /\ goroutines[g].status = "running"
          /\ goroutines' = [goroutines EXCEPT ![g].status = IF err = Nil THEN "ok" ELSE "failed"]
          /\ egErr' = IF err # Nil /\ egErr = Nil THEN goroutines[g].fn ELSE egErr
          /\ wg' = wg - 1
    /\ UNCHANGED <<file, handler, countries, exports, pc, run, ret, cidx, built, atCall,
                   calls, area, polygon>>

----------------------------------------------------------------------------
(* WaitStop *)

\* i.eg.Wait() blocks on the WaitGroup
WaitUnblockedOnError(counter, err) == counter = 0 \/ err # Nil

WaitUnblocked(counter, err) == counter = 0

\* WaitStop has no result: the error eg.Wait() returns is dropped
WaitStopResult(err) == Void

WaitStopCall ==
    /\ pc = "idle"
    /\ pc' = "waiting"
    /\ UNCHANGED <<file, handler, countries, exports, run, ret, goroutines, wg, egErr,
                   cidx, built, atCall, calls, area, polygon>>

WaitStopReturn ==
    /\ pc = "waiting"
    /\ WaitUnblocked(wg, egErr)
    /\ pc' = "idle"
    /\ ret' = [call |-> "WaitStop", value |-> WaitStopResult(egErr)]
    /\ UNCHANGED <<file, handler, countries, exports, run, goroutines, wg, egErr,
                   cidx, built, atCall, calls, area, polygon>>

----------------------------------------------------------------------------
(* Specifications *)

NoCalls == [Parse |-> 0, UpdateIndex |-> 0, err |-> Nil]

InitCommon ==
    /\ countries = <<>>
    /\ exports = {}
    /\ goroutines = <<>>
    /\ wg = 0
    /\ egErr = Nil
    /\ built = 0
    /\ ret = [call |-> "none", value |-> Nil]

\* The importer as NewImporter leaves it, before any call.
Init ==
    /\ InitCommon
    /\ file \in PipelineExtracts
    /\ handler = EmptyHandler
    /\ pc = "idle"
    /\ run = 0
    /\ cidx = 0
    /\ calls = NoCalls
    /\ atCall = [countries |-> <<>>, exports |-> {}, calls |-> NoCalls]
    /\ area = Relation(0, NoTags, <<>>)
    /\ polygon = NotComputed

Next ==
    \/ StartCall
    \/ StartParse
    \/ StartUpdateIndices
    \/ AreasToPolygonsCountry
    \/ AreasToPolygonsReturn
    \/ StartGo
    \/ GoroutineReturns
    \/ WaitStopCall
    \/ WaitStopReturn

Spec == Init /\ [][Next]_vars

\* The hierarchy build alone: the first Start has parsed some extract and
\* updated the index, and is about to call areasToPolygons.
InitBuild ==
    /\ InitCommon
    /\ file \in Extracts
    /\ handler = file
    /\ pc = "areasToPolygons"
    /\ run = 1
    /\ cidx = 1
    /\ calls = [Parse |-> 1, UpdateIndex |-> 1, err |-> Nil]
    /\ atCall = [countries |-> <<>>, exports |-> {}, calls |-> NoCalls]
    /\ area = Relation(0, NoTags, <<>>)
    /\ polygon = NotComputed

NextBuild ==
    \/ AreasToPolygonsCountry
    \/ AreasToPolygonsReturn

SpecBuild == InitBuild /\ [][NextBuild]_vars

\* relationToPolygon alone, on a relation of up to MaxMembers members.
RelationToPolygonCall ==
    /\ pc = "relationToPolygon"
    /\ polygon' = relationToPolygon(handler, area)
    /\ pc' = "returned"
    /\ UNCHANGED <<file, handler, countries, exports, run, ret, goroutines, wg, egErr,
                   cidx, built, atCall, calls, area>>

InitPoly ==
    /\ InitCommon
    /\ file = Extract(<<>>, <<>>, <<>>)
    /\ handler = file
    /\ pc = "relationToPolygon"
    /\ run = 1
    /\ cidx = 1
    /\ calls = [Parse |-> 1, UpdateIndex |-> 1, err |-> Nil]
    /\ atCall = [countries |-> <<>>, exports |-> {}, calls |-> NoCalls]
    /\ area \in {Relation(300, NoTags, ms) : ms \in SeqsUpTo(MemberRefs, MaxMembers)}
    /\ polygon = NotComputed

NextPoly == RelationToPolygonCall

SpecPoly == InitPoly /\ [][NextPoly]_vars

----------------------------------------------------------------------------
(* Properties *)

Finished(g) == goroutines[g].status \in {"ok", "failed"}

Launches(r, fn) ==
    Cardinality({g \in DOMAIN goroutines : goroutines[g].run = r /\ goroutines[g].fn = fn})

InFlight(fn) ==
    Cardinality({g \in DOMAIN goroutines :
                    goroutines[g].fn = fn /\ goroutines[g].status = "running"})

PushFuncs == {"crossRoadsToElastic", "nodesToElastic", "waysToElastic"}

\* C1: when WaitStop has returned and a push of the group failed, the value
\* WaitStop handed its caller is the group's error, so that the caller can tell
\* the run from one in which every push succeeded.
C1_WaitStopReportsFailure ==
    (pc = "idle" /\ ret.call = "WaitStop" /\ egErr # Nil) => ret.value = egErr

\* C2: when WaitStop has returned, every push launched so far has finished,
\* also when one of them failed; while the process lives no push is ever
\* cancelled, and a failure of one leaves the others free to return.
C2_WaitStopReturnsAfterAllPushes ==
    /\ (pc = "idle" /\ ret.call = "WaitStop") =>
           /\ wg = 0
           /\ \A g \in DOMAIN goroutines : Finished(g)
    /\ Alive => \A g \in DOMAIN goroutines : goroutines[g].status # "killed"
    /\ (Alive /\ egErr # Nil /\ \E g \in DOMAIN goroutines : goroutines[g].status = "running")
           => ENABLED GoroutineReturns

\* C2 witness: WaitStop has returned after a run in which one push failed and
\* the two others ran to completion.
C2_Witness ==
    /\ pc = "idle"
    /\ ret.call = "WaitStop"
    /\ egErr # Nil
    /\ Len(goroutines) = 3
    /\ Cardinality({g \in DOMAIN goroutines : goroutines[g].status = "ok"}) = 2

\* C3: within a Start call the steps come in the order parse, index-schema
\* update, hierarchy build, fan-out; a push of a Start call exists only once
\* the areasToPolygons of that call has returned.
C3_BuildBeforeFanOut ==
    /\ \A g \in DOMAIN goroutines : goroutines[g].run <= built
    /\ pc = "parse" =>
           /\ calls.Parse = atCall.calls.Parse
           /\ calls.UpdateIndex = atCall.calls.UpdateIndex
           /\ built < run
    /\ pc = "updateIndices" =>
           /\ calls.Parse = atCall.calls.Parse + 1
           /\ calls.UpdateIndex = atCall.calls.UpdateIndex
           /\ built < run
    /\ pc = "areasToPolygons" =>
           /\ calls.Parse = atCall.calls.Parse + 1
           /\ calls.UpdateIndex = atCall.calls.UpdateIndex + 1
           /\ built < run
    /\ pc \in {"go1", "go2", "go3"} =>
           /\ calls.Parse = atCall.calls.Parse + 1
           /\ calls.UpdateIndex = atCall.calls.UpdateIndex + 1
           /\ built = run

\* C3 witness: Start is fanning out, with a push already running, after a
\* build that materialized a country.
C3_Witness ==
    /\ pc = "go2"
    /\ countries # <<>>
    /\ \E g \in DOMAIN goroutines : goroutines[g].run = run /\ goroutines[g].status = "running"

\* C4: when Parse or the index-schema update of a Start call has failed, Start
\* returns that error and the run stops there: the country list and the debug
\* exports are as they were when Start was called, no push of that call is
\* launched, and after a parse failure the index-schema update is not invoked.
C4_SetupFailureStopsTheRun ==
    calls.err # Nil =>
        /\ pc \in {"idle", "waiting", "parse"}
        /\ (pc = "idle" /\ ret.call = "Start") => ret.value = calls.err
        /\ pc # "parse" =>
               /\ countries = atCall.countries
               /\ exports = atCall.exports
               /\ built < run
               /\ \A g \in DOMAIN goroutines : goroutines[g].run # run
               /\ calls.Parse = atCall.calls.Parse + 1
               /\ calls.UpdateIndex =
                      atCall.calls.UpdateIndex + (IF calls.err = "parse error" THEN 0 ELSE 1)

\* C4 witness: the second Start has returned the index-schema error, after a
\* first Start that built a country.
C4_Witness ==
    /\ pc = "idle"
    /\ ret = [call |-> "Start", value |-> "index error"]
    /\ run = 2
    /\ countries # <<>>

\* C5: in every materialized country, a settlement relation of the accumulator
\* is in the country's towns exactly when the second point of its assembled
\* ring lies inside the country polygon.
C5_SettlementAttachedBySecondPoint ==
    \A c \in DOMAIN countries, a \in DOMAIN handler.Areas :
        LET ring == relationToPolygon(handler, handler.Areas[a])
            towns == countries[c].towns
        IN  (\E t \in DOMAIN towns :
                /\ towns[t].name = Tag(handler.Areas[a].Tags, "name")
                /\ towns[t].geom = ring)
            <=> (Len(ring) >= 2 /\ Contains(countries[c].geom, ring[2]))

\* C5 witness: the outer square holds the settlement whose second point alone
\* is inside it, and not the one whose second point alone is outside it.
C5_Witness ==
    /\ pc = "go1"
    /\ handler.Countries = <<CountryKG>>
    /\ handler.Areas = <<AreaSecondOut, AreaSecondIn>>
    /\ Len(countries) = 1
    /\ Len(countries[1].towns) = 1
    /\ countries[1].towns[1].name = "Tokmok"
    /\ ~Contains(countries[1].geom, countries[1].towns[1].geom[1])
    /\ ~Contains(countries[1].geom, countries[1].towns[1].geom[3])

\* C6: the hierarchy is a strict tree: a district is never under two
\* settlements of a country (it goes to the first one that contains its second
\* point only).
C6_DistrictHasOneSettlement ==
    \A c \in DOMAIN countries :
        \A t1, t2 \in DOMAIN countries[c].towns :
            t1 # t2 =>
                \A d1 \in DOMAIN countries[c].towns[t1].districts,
                   d2 \in DOMAIN countries[c].towns[t2].districts :
                    countries[c].towns[t1].districts[d1] # countries[c].towns[t2].districts[d2]

MatchingCountries ==
    SelectSeq(handler.Countries, LAMBDA cn : Tag(cn.Tags, "name") = ImportCountry)

\* C7 as stated: countries come from relations of the configured name only,
\* and at most one Country exists after a hierarchy build.
C7_AtMostOneCountry ==
    /\ \A c \in DOMAIN countries : countries[c].name = ImportCountry
    /\ Len(countries) <= 1

\* C7 as amended: countries come from relations of the configured name only,
\* one Country per such relation, in the accumulator's order; at most one
\* Country exists when at most one relation carries the configured name.
C7_OneCountryPerMatchingRelation ==
    /\ \A c \in DOMAIN countries :
           /\ countries[c].name = ImportCountry
           /\ c <= Len(MatchingCountries)
           /\ countries[c].geom = relationToPolygon(handler, MatchingCountries[c])
    /\ pc = "go1" => Len(countries) = Len(MatchingCountries)
    /\ (pc = "go1" /\ Len(MatchingCountries) <= 1) => Len(countries) <= 1

\* C7 witness: a finished build over an accumulator in which two relations
\* carry the configured name: two countries, and a settlement under both.
C7_Witness ==
    /\ pc = "go1"
    /\ handler.Countries = <<CountryKG, CountryKGAgain>>
    /\ Len(countries) = 2
    /\ \E t1 \in DOMAIN countries[1].towns, t2 \in DOMAIN countries[2].towns :
           countries[1].towns[t1] = countries[2].towns[t2]

\* C8: the hierarchy build never faults on malformed input; the only fatal
\* outcome is the failure to create the debug export.
C8_BuildNeverFaults == pc # "panicked"

C9_Contribution(member) ==
    IF member.ID \in DOMAIN handler.Nodes
    THEN << <<handler.Nodes[member.ID].Lat, handler.Nodes[member.ID].Lon>> >>
    ELSE IF member.ID \in DOMAIN handler.FullWays
    THEN [k \in DOMAIN handler.FullWays[member.ID].NodeIDs |->
             LET node == handler.Nodes[handler.FullWays[member.ID].NodeIDs[k]]
             IN  <<node.Lat, node.Lon>>]
    ELSE <<>>

RECURSIVE C9_Concat(_)
C9_Concat(members) ==
    IF members = <<>> THEN <<>>
    ELSE C9_Contribution(Head(members)) \o C9_Concat(Tail(members))

\* C9: the ring relationToPolygon returns is the concatenation, in member
\* order, of each member's points: the point itself for a known point, the
\* points of the path in path order for a known path, nothing otherwise.
C9_RingIsConcatenation ==
    pc = "returned" => polygon = C9_Concat(area.Members)

\* C9 witness: members [pointRef(P), pathRef(A,B)] gave [P,A,B].
C9_Witness ==
    /\ pc = "returned"
    /\ area.Members = <<Ref(1, "node"), Ref(104, "way")>>
    /\ polygon = << <<0, 0>>, <<8, 0>>, <<8, 8>> >>

\* C10 as stated: for any sequence of Start and WaitStop calls, at every
\* moment at most one push is in flight for each dataset, and a Start that
\* fanned out has launched each push exactly once.
C10_OnePushInFlightPerDataset ==
    /\ \A fn \in PushFuncs : InFlight(fn) <= 1
    /\ (pc = "idle" /\ ret = [call |-> "Start", value |-> Nil]) =>
           \A fn \in PushFuncs : Launches(run, fn) = 1

\* C10 as amended: a Start that returns nil has launched each push exactly
\* once and a Start that returns an error has launched none; no Start call ever
\* has a push launched a second time, whether or not a push fails; two pushes
\* of one dataset are in flight only when a push of an earlier Start call is
\* still running.
C10_OnePushPerDatasetPerStart ==
    /\ \A r \in 1..run, fn \in PushFuncs : Launches(r, fn) <= 1
    /\ \A g \in DOMAIN goroutines : goroutines[g].fn \in PushFuncs
    /\ (pc = "idle" /\ ret.call = "Start") =>
           \A fn \in PushFuncs : Launches(run, fn) = (IF ret.value = Nil THEN 1 ELSE 0)
    /\ \A fn \in PushFuncs :
           InFlight(fn) > 1 =>
               \E g \in DOMAIN goroutines :
                   /\ goroutines[g].run < run
                   /\ goroutines[g].fn = fn
                   /\ goroutines[g].status = "running"

\* C10 witness: a Start has returned nil, one of its pushes has failed, and
\* each of its three pushes was launched once.
C10_Witness ==
    /\ pc = "idle"
    /\ ret = [call |-> "Start", value |-> Nil]
    /\ \E g \in DOMAIN goroutines : goroutines[g].run = run /\ goroutines[g].status = "failed"
    /\ \A fn \in PushFuncs : Launches(run, fn) = 1

====
